---- MODULE Spec2Model ----
(***************************************************************************)
(* Model of brainstorm/structure/buffers.py: ParameterView,                *)
(* ParameterBuffer, InOutBuffer and BufferManager.                         *)
(*                                                                         *)
(* Every method of the source is a pure operator from a "world" record     *)
(* (the heap of memory blocks, the six buffers, the manager's fields and   *)
(* the flags of the running call) to the world after it.  A world whose    *)
(* raised flag is set is one in which an exception is propagating: every   *)
(* later statement of the call is skipped, and whatever was assigned       *)
(* before the raise stays assigned, as in Python.                          *)
(***************************************************************************)
EXTENDS Integers, Sequences, FiniteSets, TLC

VARIABLES mem, parameters, gradient, inputs, outputs, in_deltas, out_deltas,
          manager, call, hist, pview

vars == <<mem, parameters, gradient, inputs, outputs, in_deltas, out_deltas,
          manager, call, hist, pview>>

-----------------------------------------------------------------------------
(* Bounds of the model *)

MaxLive == 2
MaxHeld == 2
MaxT == 2
MaxVal == 2
MaxAlloc == 3
MaxCount == 2
MaxFields == 2
MaxSeg == 4

-----------------------------------------------------------------------------
(* Values *)

None == -1
EMPTY == 0
NoneShape == << >>
NoParams == << >>
NoViews == [x \in {} |-> 0]

Handlers == {"default", "other"}
default_handler == "default"

(* (nr_timesteps, nr_sequences), and a shape with a third element *)
Dims == {<<t, 1>> : t \in 0..MaxT} \cup {<<1, 2>>}
Shapes == Dims \cup {<<2, 1, 5>>}
Values == 0..MaxVal

Min(a, b) == IF a < b THEN a ELSE b
Max(a, b) == IF a < b THEN b ELSE a

RECURSIVE Sum(_)
Sum(s) == IF s = << >> THEN 0 ELSE Head(s) + Sum(Tail(s))

RECURSIVE Prod(_)
Prod(s) == IF s = << >> THEN 1 ELSE Head(s) * Prod(Tail(s))

Zeros(n) == [i \in 1..n |-> 0]

(* shape[:2] *)
Take2(shape) == SubSeq(shape, 1, Min(2, Len(shape)))

-----------------------------------------------------------------------------
(* The inputs of the constructors: a parameter layout and the hub layouts. *)

(* param_layout = (size, layout); layout maps a layer to                   *)
(* (start, stop, structure), structure a sequence of (name, shape).        *)
ParamLayouts ==
  { [size |-> 2,
     layout |-> << [name |-> "A", start |-> 0, stop |-> 1,
                    structure |-> << <<"w", <<1>> >> >>],
                   [name |-> "B", start |-> 1, stop |-> 2,
                    structure |-> << <<"b", <<1, 1>> >> >>] >>] }

(* hub_sizes with the per-hub maps layer -> feature slice of the sink side *)
(* (inputs) and of the source side (outputs).                              *)
HubLayouts ==
  { [hub_sizes |-> <<2, 1>>,
     sinks   |-> << [l \in {"L2"} |-> <<0, 2>>], [l \in {"L3"} |-> <<0, 1>>] >>,
     sources |-> << [l \in {"L1"} |-> <<0, 2>>], [l \in {"L2"} |-> <<0, 1>>] >>] }

-----------------------------------------------------------------------------
(* The memory handler.  A block's identity is its index in mem.  Every    *)
(* place of the program that allocates (a site) draws from indices of its  *)
(* own, and allocate hands out one that no live reference names, so that a *)
(* new block is distinct from every block still referred to.               *)

Sites == <<"param", "grad", "fwd", "bwd", "caller">>

SiteIds(site) ==
  IF site = "caller" THEN (4 * MaxLive + 1)..(4 * MaxLive + MaxHeld)
  ELSE LET k == CHOOSE i \in 1..4 : Sites[i] = site
       IN ((k - 1) * MaxLive + 1)..(k * MaxLive)

BlockIds == 1..(4 * MaxLive + MaxHeld)

FreeBlock ==
  [free |-> TRUE, size |-> 0, data |-> << >>, old |-> FALSE]

MemSize(m, id) == IF id = EMPTY THEN 0 ELSE m[id].size

FreeIds(m, site) == {i \in SiteIds(site) : m[i].free}

NewId(w, site) ==
  IF FreeIds(w.mem, site) = {} THEN EMPTY
  ELSE CHOOSE i \in FreeIds(w.mem, site) :
         \A j \in FreeIds(w.mem, site) : i <= j

(* handler.allocate(size), called at the given site: a new block, distinct *)
(* from every other one; the call keeps note of which handler made it      *)
allocate(w, handler, size, site) ==
  IF w.raised THEN w
  ELSE IF FreeIds(w.mem, site) = {} THEN [w EXCEPT !.overflow = TRUE]
  ELSE [w EXCEPT !.mem[NewId(w, site)] =
                    [free |-> FALSE, size |-> size, data |-> Zeros(size),
                     old |-> FALSE],
                 !.allocated = @ \cup {[id |-> NewId(w, site), by |-> handler]}]

(* handler.get(block): a host-side copy of the block's values *)
get(w, id) == w.mem[id].data

(* handler.set_from_numpy(block, array): writes into the block.  Given     *)
(* None there is no block to write into: whether the handler then raises   *)
(* or returns, no state changes here, and the caller's next statement      *)
(* decides how the call ends                                               *)
set_from_numpy(w, id, arr) ==
  IF w.raised \/ id = None THEN w
  ELSE [w EXCEPT !.mem[id].data = arr]

(* memory[start:stop] of a block of n elements keeps what lies inside it *)
Clip(i, n) == Min(Max(i, 0), n)
SliceLen(start, stop, n) == Max(Clip(stop, n) - Clip(start, n), 0)

-----------------------------------------------------------------------------
(* ParameterView *)

(* the bounds, with the bug of leaving out the cumsum *)
Bound_not_cumulative(structure, k) ==
  IF k = 0 THEN 0 ELSE Prod(structure[k][2])

(* np.cumsum of the np.prod of the first k shapes *)
RECURSIVE Bound(_, _)
Bound(structure, k) ==
  IF k = 0 THEN 0 ELSE Bound(structure, k - 1) + Prod(structure[k][2])

(* buffer[start:stop] of field k, as a segment of the block *)
FieldSegment(structure, buffer, k) ==
  LET start == Bound(structure, k - 1)
      stop  == Bound(structure, k)
  IN [memory |-> buffer.memory,
      off |-> buffer.off + Clip(start, buffer.len),
      len |-> SliceLen(start, stop, buffer.len)]

(* .reshape(shape) raises unless the slice holds exactly prod(shape) *)
ReshapeOk(len, shape) == len = Prod(shape)

(* ParameterView.__new__ and __init__: one sub-array per field, in order *)
ParameterView(structure, buffer) ==
  LET seg(k) == FieldSegment(structure, buffer, k)
  IN IF \E k \in 1..Len(structure) : ~ReshapeOk(seg(k).len, structure[k][2])
     THEN [raised |-> TRUE, fields |-> << >>]
     ELSE [raised |-> FALSE,
           fields |-> [k \in 1..Len(structure) |->
                         [name |-> structure[k][1],
                          memory |-> seg(k).memory,
                          start |-> seg(k).off,
                          stop |-> seg(k).off + seg(k).len,
                          shape |-> structure[k][2]]]]

(* ParameterView.__init__: self.__dict__[name] = self[i] for every field   *)
(* from field k on, in order, so that a later field of the same name       *)
(* replaces an earlier one                                                 *)
RECURSIVE view_dict_from(_, _, _, _)
view_dict_from(structure, fields, k, dict) ==
  IF k > Len(structure) THEN dict
  ELSE view_dict_from(structure, fields, k + 1,
         [n \in DOMAIN dict \cup {structure[k][1]} |->
            IF n = structure[k][1] THEN fields[k] ELSE dict[n]])

view_dict(structure, fields) ==
  view_dict_from(structure, fields, 1, [n \in {} |-> 0])

(* ParameterView.__getitem__ with an int: the item of the tuple, from 0 *)
getitem_int(v, i) == v.fields[i + 1]

(* ParameterView.__getitem__ with a name: self.__dict__[item] *)
getitem_name(v, name) == v.dict[name]

-----------------------------------------------------------------------------
(* ParameterBuffer *)

ParameterBuffer(param_layout, handler) ==
  [size |-> param_layout.size, layout |-> param_layout.layout,
   memory |-> None, handler |-> handler, views |-> NoViews]

(* get_raw(layer_name): memory[start:stop] *)
get_raw(buf, m, entry) ==
  LET n == MemSize(m, buf.memory)
  IN [memory |-> buf.memory, off |-> Clip(entry.start, n),
      len |-> SliceLen(entry.start, entry.stop, n)]

(* ParameterBuffer._relocate_internal_memory, with the bug of binding a    *)
(* block of any size                                                       *)
PB_relocate_unchecked(buf, m, memory) ==
  IF memory = None THEN [buf |-> buf, relocated |-> FALSE, raised |-> TRUE]
  ELSE IF memory = buf.memory
  THEN [buf |-> buf, relocated |-> FALSE, raised |-> FALSE]
  ELSE [buf |-> [buf EXCEPT !.memory = memory], relocated |-> TRUE,
        raised |-> FALSE]

(* ParameterBuffer._relocate_internal_memory *)
PB_relocate_internal_memory(buf, m, memory) ==
  IF memory = None THEN [buf |-> buf, relocated |-> FALSE, raised |-> TRUE]
  ELSE IF memory = buf.memory
  THEN [buf |-> buf, relocated |-> FALSE, raised |-> FALSE]
  ELSE IF MemSize(m, memory) # buf.size
  THEN [buf |-> buf, relocated |-> FALSE, raised |-> TRUE]
  ELSE [buf |-> [buf EXCEPT !.memory = memory], relocated |-> TRUE,
        raised |-> FALSE]

(* ParameterBuffer._lay_out from layer k on: the views of the layers       *)
(* before a raising ParameterView are already replaced                     *)
RECURSIVE PB_lay_out_from(_, _, _)
PB_lay_out_from(buf, m, k) ==
  IF k > Len(buf.layout) THEN [buf |-> buf, raised |-> FALSE]
  ELSE LET entry == buf.layout[k]
           view == ParameterView(entry.structure, get_raw(buf, m, entry))
       IN IF view.raised THEN [buf |-> buf, raised |-> TRUE]
          ELSE PB_lay_out_from(
                 [buf EXCEPT !.views =
                    [l \in DOMAIN buf.views \cup {entry.name} |->
                       IF l = entry.name THEN view.fields ELSE buf.views[l]]],
                 m, k + 1)

PB_lay_out(buf, m) == PB_lay_out_from(buf, m, 1)

(* ParameterBuffer.rearrange, with the bug of laying out whether or not    *)
(* the memory was relocated                                                *)
PB_rearrange_always(w, b, memory) ==
  IF w.raised THEN w
  ELSE LET r == PB_relocate_internal_memory(w[b], w.mem, memory)
       IN IF r.raised THEN [w EXCEPT !.raised = TRUE]
          ELSE LET l == PB_lay_out(r.buf, w.mem)
               IN [w EXCEPT ![b] = l.buf, !.raised = l.raised,
                            !.relaid = @ \cup {b}]

(* ParameterBuffer.rearrange(memory) on the buffer w[b] *)
PB_rearrange(w, b, memory) ==
  IF w.raised THEN w
  ELSE LET r == PB_relocate_internal_memory(w[b], w.mem, memory)
       IN IF r.raised THEN [w EXCEPT !.raised = TRUE]
          ELSE IF ~r.relocated THEN w
          ELSE LET l == PB_lay_out(r.buf, w.mem)
               IN [w EXCEPT ![b] = l.buf, !.raised = l.raised,
                            !.relaid = @ \cup {b}]

-----------------------------------------------------------------------------
(* InOutBuffer *)

InOutBuffer(hub_sizes, layouts, handler) ==
  [hub_sizes |-> hub_sizes, size |-> 0, layouts |-> layouts, memory |-> None,
   shape |-> NoneShape, handler |-> handler, views |-> NoViews]

get_size(buf, shape) == shape[1] * shape[2] * Sum(buf.hub_sizes)

(* InOutBuffer._resize_internal_memory *)
IO_resize_internal_memory(buf, m, memory) ==
  IF memory = None
  THEN IF buf.memory = None \/ MemSize(m, buf.memory) < buf.size
       THEN [buf |-> buf, relocated |-> FALSE, raised |-> TRUE]
       ELSE [buf |-> buf, relocated |-> FALSE, raised |-> FALSE]
  ELSE IF memory = buf.memory
  THEN [buf |-> buf, relocated |-> FALSE, raised |-> FALSE]
  ELSE IF MemSize(m, memory) < buf.size
  THEN [buf |-> buf, relocated |-> FALSE, raised |-> TRUE]
  ELSE [buf |-> [buf EXCEPT !.memory = memory], relocated |-> TRUE,
        raised |-> FALSE]

(* InOutBuffer._lay_out, with the bug of not advancing the offset i *)
RECURSIVE IO_lay_out_stuck(_, _, _, _)
IO_lay_out_stuck(buf, m, k, i) ==
  IF k > Min(Len(buf.hub_sizes), Len(buf.layouts))
  THEN [buf |-> buf, raised |-> FALSE]
  ELSE LET hub_feature_size == buf.hub_sizes[k]
           hub_shape == <<buf.shape[1], buf.shape[2], hub_feature_size>>
           hub_size == buf.shape[1] * buf.shape[2] * hub_feature_size
           n == MemSize(m, buf.memory)
           layout == buf.layouts[k]
       IN IF ~ReshapeOk(SliceLen(i, i + hub_size, n), hub_shape)
          THEN [buf |-> buf, raised |-> TRUE]
          ELSE IO_lay_out_stuck(
                 [buf EXCEPT !.views =
                    [l \in DOMAIN buf.views \cup DOMAIN layout |->
                       IF l \in DOMAIN layout
                       THEN [memory |-> buf.memory, hub |-> k,
                             start |-> i, stop |-> i + hub_size,
                             shape |-> hub_shape, features |-> layout[l]]
                       ELSE buf.views[l]]],
                 m, k + 1, i)

(* InOutBuffer._lay_out from hub k at offset i: memory[i:i + hub_size] is  *)
(* cut at the end of the block and its reshape raises when it is short     *)
RECURSIVE IO_lay_out_from(_, _, _, _)
IO_lay_out_from(buf, m, k, i) ==
  IF k > Min(Len(buf.hub_sizes), Len(buf.layouts))
  THEN [buf |-> buf, raised |-> FALSE]
  ELSE LET hub_feature_size == buf.hub_sizes[k]
           hub_shape == <<buf.shape[1], buf.shape[2], hub_feature_size>>
           hub_size == buf.shape[1] * buf.shape[2] * hub_feature_size
           n == MemSize(m, buf.memory)
           layout == buf.layouts[k]
       IN IF ~ReshapeOk(SliceLen(i, i + hub_size, n), hub_shape)
          THEN [buf |-> buf, raised |-> TRUE]
          ELSE IO_lay_out_from(
                 [buf EXCEPT !.views =
                    [l \in DOMAIN buf.views \cup DOMAIN layout |->
                       IF l \in DOMAIN layout
                       THEN [memory |-> buf.memory, hub |-> k,
                             start |-> i, stop |-> i + hub_size,
                             shape |-> hub_shape, features |-> layout[l]]
                       ELSE buf.views[l]]],
                 m, k + 1, i + hub_size)

(* InOutBuffer._lay_out *)
IO_lay_out(buf, m) == IO_lay_out_from(buf, m, 1, 0)

(* InOutBuffer.rearrange(shape, memory=None) on the buffer w[b] *)
IO_rearrange(w, b, shape, memory) ==
  IF w.raised THEN w
  ELSE LET shape_changed == w[b].shape # Take2(shape)
           sized == [w[b] EXCEPT !.shape = Take2(shape),
                                 !.size = get_size(w[b], Take2(shape))]
           r == IO_resize_internal_memory(sized, w.mem, memory)
       IN IF r.raised THEN [w EXCEPT ![b] = r.buf, !.raised = TRUE]
          ELSE IF ~(r.relocated \/ shape_changed) THEN [w EXCEPT ![b] = r.buf]
          ELSE LET l == IO_lay_out(r.buf, w.mem)
               IN [w EXCEPT ![b] = l.buf, !.raised = l.raised,
                            !.relaid = @ \cup {b}]

-----------------------------------------------------------------------------
(* BufferManager *)

(* copy(buffer): a shallow copy, every attribute carried over as it is *)
copy(buf) == buf

(* BufferManager.__init__ *)
BufferManager(handler) ==
  [fwd_shape |-> NoneShape, bwd_shape |-> NoneShape,
   param_memory |-> None, grad_memory |-> None,
   handler |-> handler, fwd_memory |-> EMPTY, bwd_memory |-> EMPTY]

(* BufferManager.reset *)
reset(w) ==
  IF w.raised THEN w
  ELSE [w EXCEPT !.manager.fwd_shape = NoneShape,
                 !.manager.bwd_shape = NoneShape,
                 !.manager.param_memory = None,
                 !.manager.grad_memory = None,
                 !.manager.fwd_memory = EMPTY,
                 !.manager.bwd_memory = EMPTY]

(* the snapshot set_memory_handler takes of the parameters *)
Snapshot(w) ==
  IF w.manager.param_memory # None THEN get(w, w.manager.param_memory)
  ELSE NoParams

(* BufferManager.set_memory_handler *)
set_memory_handler(w, handler) ==
  LET params == Snapshot(w)
      taken == w.manager.param_memory # None
      w1 == reset(w)
      w2 == [w1 EXCEPT !.manager.handler = handler,
                       !.parameters.handler = handler,
                       !.gradient.handler = handler,
                       !.inputs.handler = handler,
                       !.outputs.handler = handler,
                       !.in_deltas.handler = handler,
                       !.out_deltas.handler = handler]
  IN IF ~taken THEN w2
     ELSE PB_rearrange(set_from_numpy(w2, w2.manager.param_memory, params),
                       "parameters", w2.manager.param_memory)

(* BufferManager.rearrange_parameters, with the bug of allocating on every *)
(* call                                                                    *)
rearrange_parameters_always(w) ==
  LET w1 == allocate(w, w.manager.handler, w.parameters.size, "param")
      w2 == [w1 EXCEPT !.manager.param_memory = NewId(w, "param")]
  IN PB_rearrange(w2, "parameters", w2.manager.param_memory)

(* BufferManager.rearrange_parameters *)
rearrange_parameters(w) ==
  IF w.manager.param_memory # None THEN w
  ELSE LET w1 == allocate(w, w.manager.handler, w.parameters.size, "param")
           w2 == [w1 EXCEPT !.manager.param_memory = NewId(w, "param")]
       IN PB_rearrange(w2, "parameters", w2.manager.param_memory)

(* rearrange_fwd's test of the shape, with the bug of never returning early *)
fwd_shape_unchanged_never(w, shape) == FALSE

(* rearrange_fwd: self.fwd_shape == shape[:2] *)
fwd_shape_unchanged(w, shape) == w.manager.fwd_shape = Take2(shape)

(* rearrange_fwd's test of the capacity, with the bug of a new block for   *)
(* every other size                                                        *)
fwd_insufficient_exact(w, in_size) ==
  MemSize(w.mem, w.manager.fwd_memory) # in_size

(* rearrange_fwd's test of the capacity, with the bug of a new block when  *)
(* the block is just large enough                                          *)
fwd_insufficient_eager(w, in_size) ==
  MemSize(w.mem, w.manager.fwd_memory) <= in_size

(* rearrange_fwd: self.fwd_memory.size < in_size *)
fwd_insufficient(w, in_size) ==
  MemSize(w.mem, w.manager.fwd_memory) < in_size

(* BufferManager.rearrange_fwd *)
rearrange_fwd(w, shape) ==
  IF fwd_shape_unchanged(w, shape) THEN w
  ELSE LET w1 == [w EXCEPT !.manager.fwd_shape = Take2(shape)]
           fwd_shape == w1.manager.fwd_shape
           in_size == get_size(w1.inputs, fwd_shape)
       IN IF fwd_insufficient(w1, in_size)
          THEN LET w2 == allocate(w1, w1.manager.handler, in_size, "fwd")
                   w3 == [w2 EXCEPT !.manager.fwd_memory = NewId(w1, "fwd")]
                   w4 == IO_rearrange(w3, "inputs", fwd_shape,
                                      w3.manager.fwd_memory)
               IN IO_rearrange(w4, "outputs", fwd_shape,
                               w3.manager.fwd_memory)
          ELSE IO_rearrange(IO_rearrange(w1, "inputs", fwd_shape, None),
                            "outputs", fwd_shape, None)

(* the gradient memory, with the bug of taking the parameters' block *)
allocate_gradient_shared(w) ==
  IF w.manager.grad_memory # None THEN w
  ELSE IF w.manager.param_memory = None
  THEN LET w1 == allocate(w, w.manager.handler, w.gradient.size, "grad")
           w2 == [w1 EXCEPT !.manager.grad_memory = NewId(w, "grad")]
       IN PB_rearrange(w2, "gradient", w2.manager.grad_memory)
  ELSE LET w2 == [w EXCEPT !.manager.grad_memory = w.manager.param_memory]
       IN PB_rearrange(w2, "gradient", w2.manager.grad_memory)

(* the gradient memory, with the bug of allocating it on every call *)
allocate_gradient_always(w) ==
  LET w1 == allocate(w, w.manager.handler, w.gradient.size, "grad")
      w2 == [w1 EXCEPT !.manager.grad_memory = NewId(w, "grad")]
  IN PB_rearrange(w2, "gradient", w2.manager.grad_memory)

(* the part of rearrange_bwd that allocates the gradient memory once *)
allocate_gradient(w) ==
  IF w.manager.grad_memory # None THEN w
  ELSE LET w1 == allocate(w, w.manager.handler, w.gradient.size, "grad")
           w2 == [w1 EXCEPT !.manager.grad_memory = NewId(w, "grad")]
       IN PB_rearrange(w2, "gradient", w2.manager.grad_memory)

(* the new backward block, with the bug of taking the forward block *)
grow_bwd_memory_shared(w, deltas_size) ==
  [w EXCEPT !.manager.bwd_memory = w.manager.fwd_memory]

(* rearrange_bwd: self.bwd_memory = self.handler.allocate(deltas_size) *)
grow_bwd_memory(w, deltas_size) ==
  LET w2 == allocate(w, w.manager.handler, deltas_size, "bwd")
  IN [w2 EXCEPT !.manager.bwd_memory = NewId(w, "bwd")]

(* BufferManager.rearrange_bwd *)
rearrange_bwd(w) ==
  IF w.manager.bwd_shape = w.manager.fwd_shape THEN w
  ELSE LET w0 == [w EXCEPT !.manager.bwd_shape = w.manager.fwd_shape]
           w1 == allocate_gradient(w0)
           bwd_shape == w1.manager.bwd_shape
           deltas_size == get_size(w1.in_deltas, bwd_shape)
       IN IF w1.raised THEN w1
          ELSE IF MemSize(w1.mem, w1.manager.bwd_memory) < deltas_size
          THEN LET w3 == grow_bwd_memory(w1, deltas_size)
                   w4 == IO_rearrange(w3, "in_deltas", bwd_shape,
                                      w3.manager.bwd_memory)
               IN IO_rearrange(w4, "out_deltas", bwd_shape,
                               w3.manager.bwd_memory)
          ELSE IO_rearrange(IO_rearrange(w1, "in_deltas", bwd_shape, None),
                            "out_deltas", bwd_shape, None)

-----------------------------------------------------------------------------
(* The state machine of one BufferManager and its callers *)

(* the world a call starts in *)
World ==
  [mem |-> mem, parameters |-> parameters, gradient |-> gradient,
   inputs |-> inputs, outputs |-> outputs, in_deltas |-> in_deltas,
   out_deltas |-> out_deltas, manager |-> manager,
   raised |-> FALSE, relaid |-> {}, allocated |-> {}, overflow |-> FALSE]

Buffers ==
  {"parameters", "gradient", "inputs", "outputs", "in_deltas", "out_deltas"}

(* the blocks something still refers to *)
Live(w) ==
  ({w[b].memory : b \in Buffers}
     \cup {w.manager.param_memory, w.manager.grad_memory,
           w.manager.fwd_memory, w.manager.bwd_memory}) \ {None, EMPTY}

(* a block nothing refers to any more is gone *)
Collect(w) ==
  [w EXCEPT !.mem = [i \in DOMAIN w.mem |->
                       IF i \in Live(w) THEN w.mem[i] ELSE FreeBlock]]

(* history: every block that exists when reset() runs is from then on a    *)
(* block of before the reset                                               *)
MarkOld(w) ==
  [w EXCEPT !.mem = [i \in DOMAIN w.mem |->
                       IF w.mem[i].free THEN w.mem[i]
                       ELSE [w.mem[i] EXCEPT !.old = TRUE]]]

NoView ==
  [op |-> "init", structure |-> << >>,
   buffer |-> [memory |-> None, off |-> 0, len |-> 0],
   raised |-> FALSE, fields |-> << >>, dict |-> [n \in {} |-> 0]]

NoCall ==
  [op |-> "init", shape |-> NoneShape, memory |-> None, handler |-> "",
   params |-> NoParams, raised |-> FALSE, relaid |-> {}, allocated |-> {}]

(* what the call was and how it ended *)
Called(op, w) ==
  [NoCall EXCEPT !.op = op, !.raised = w.raised, !.relaid = w.relaid,
                 !.allocated = w.allocated]

(* the state after a call that ends in world w *)
Commit(w, c) ==
  /\ ~w.overflow
  /\ mem' = w.mem
  /\ parameters' = w.parameters
  /\ gradient' = w.gradient
  /\ inputs' = w.inputs
  /\ outputs' = w.outputs
  /\ in_deltas' = w.in_deltas
  /\ out_deltas' = w.out_deltas
  /\ manager' = w.manager
  /\ call' = c
  /\ UNCHANGED pview

(* history since the manager was built or reset: the largest size a        *)
(* rearrange_fwd asked for, whether rearrange_fwd was called, and how many *)
(* parameter blocks and gradient blocks were allocated (counted up to      *)
(* MaxCount)                                                               *)
NoHist ==
  [fwd_max |-> 0, fwd_called |-> FALSE, param_allocs |-> 0,
   grad_allocs |-> 0]

(* the number of blocks the call that ends in w allocated at the site *)
AllocatedAt(w, site) ==
  Cardinality({a \in w.allocated : a.id \in SiteIds(site)})

Init ==
  /\ mem = [i \in BlockIds |-> FreeBlock]
  /\ \E pl \in ParamLayouts :
       /\ parameters = ParameterBuffer(pl, default_handler)
       /\ gradient = copy(ParameterBuffer(pl, default_handler))
  /\ \E hl \in HubLayouts :
       /\ inputs = InOutBuffer(hl.hub_sizes, hl.sinks, default_handler)
       /\ outputs = InOutBuffer(hl.hub_sizes, hl.sources, default_handler)
       /\ in_deltas =
            copy(InOutBuffer(hl.hub_sizes, hl.sinks, default_handler))
       /\ out_deltas =
            copy(InOutBuffer(hl.hub_sizes, hl.sources, default_handler))
  /\ manager = BufferManager(default_handler)
  /\ call = NoCall
  /\ hist = NoHist
  /\ pview = NoView

Reset ==
  LET w == Collect(MarkOld(reset(World)))
  IN /\ Commit(w, Called("reset", w))
     /\ hist' = NoHist

SetMemoryHandler(handler) ==
  LET w == Collect(MarkOld(set_memory_handler(World, handler)))
  IN /\ Commit(w, [Called("set_memory_handler", w) EXCEPT
                     !.handler = handler, !.params = Snapshot(World)])
     /\ hist' = NoHist

RearrangeParameters ==
  LET w == Collect(rearrange_parameters(World))
  IN /\ Commit(w, Called("rearrange_parameters", w))
     /\ hist' = [hist EXCEPT
                   !.param_allocs = Min(@ + AllocatedAt(w, "param"), MaxCount)]

RearrangeFwd(shape) ==
  LET w == Collect(rearrange_fwd(World, shape))
  IN /\ Commit(w, [Called("rearrange_fwd", w) EXCEPT !.shape = shape])
     /\ hist' = [hist EXCEPT
                   !.fwd_max = Max(@, get_size(inputs, Take2(shape))),
                   !.fwd_called = TRUE]

RearrangeBwd ==
  LET w == Collect(rearrange_bwd(World))
  IN /\ Commit(w, Called("rearrange_bwd", w))
     /\ hist' = [hist EXCEPT
                   !.grad_allocs = Min(@ + AllocatedAt(w, "grad"), MaxCount)]

(* a layer writes value v at index i through its view of the parameters *)
WriteParameters(i, v) ==
  /\ parameters.memory # None
  /\ i \in 1..MemSize(mem, parameters.memory)
  /\ mem[parameters.memory].data[i] # v
  /\ LET w == [World EXCEPT !.mem[parameters.memory].data[i] = v]
     IN Commit(w, Called("write", w))
  /\ UNCHANGED hist

Next ==
  \/ Reset
  \/ \E handler \in Handlers : SetMemoryHandler(handler)
  \/ RearrangeParameters
  \/ \E shape \in Shapes : RearrangeFwd(shape)
  \/ RearrangeBwd

Spec == Init /\ [][Next]_vars

(* The manager's parameter memory with the values the layers write to it *)
NextParams ==
  \/ Reset
  \/ \E handler \in Handlers : SetMemoryHandler(handler)
  \/ RearrangeParameters
  \/ \E i \in 1..parameters.size, v \in Values : WriteParameters(i, v)

SpecParams == Init /\ [][NextParams]_vars

-----------------------------------------------------------------------------
(* The state machine of the buffers used on their own: a caller allocates  *)
(* blocks, keeps them, and rearranges one InOutBuffer (inputs) and one     *)
(* ParameterBuffer (parameters) directly.                                  *)

Blocks == {i \in DOMAIN mem : ~mem[i].free}

Allocate(size) ==
  LET w == allocate(World, default_handler, size, "caller")
  IN /\ Commit(w, Called("allocate", w))
     /\ UNCHANGED hist

InOutRearrange(shape, memory) ==
  LET w == IO_rearrange(World, "inputs", shape, memory)
  IN /\ Commit(w, [Called("InOutBuffer.rearrange", w) EXCEPT
                     !.shape = shape, !.memory = memory])
     /\ UNCHANGED hist

ParameterRearrange(memory) ==
  LET w == PB_rearrange(World, "parameters", memory)
  IN /\ Commit(w, [Called("ParameterBuffer.rearrange", w) EXCEPT
                     !.memory = memory])
     /\ UNCHANGED hist

NextBuf ==
  \/ \E size \in 0..MaxAlloc : Allocate(size)
  \/ \E shape \in Shapes, memory \in Blocks \cup {None} :
       InOutRearrange(shape, memory)
  \/ \E memory \in Blocks \cup {None} : ParameterRearrange(memory)

SpecBuf == Init /\ [][NextBuf]_vars

-----------------------------------------------------------------------------
(* The state machine of ParameterView used on its own: a caller constructs *)
(* a view from a structure and a segment of some array.                    *)

FieldNames == {"w", "b"}
FieldShapes == {<<1>>, <<1, 2>>, <<0>>}
Fields == {<<n, sh>> : n \in FieldNames, sh \in FieldShapes}

Structures ==
  UNION {[1..k -> Fields] : k \in 0..MaxFields}

(* the array the caller cuts the segments from *)
CallerArray ==
  CHOOSE i \in SiteIds("caller") : \A j \in SiteIds("caller") : i <= j

(* segments of at most MaxSeg elements, at the start of the array or not *)
Segments ==
  {[memory |-> CallerArray, off |-> o, len |-> n] :
     o \in 0..1, n \in 0..MaxSeg}

(* a view is constructed once; it is a tuple and never changes afterwards *)
ConstructView(structure, buffer) ==
  LET v == ParameterView(structure, buffer)
  IN /\ pview = NoView
     /\ pview' = [op |-> "ParameterView", structure |-> structure,
                 buffer |-> buffer, raised |-> v.raised,
                 fields |-> v.fields,
                 dict |-> IF v.raised THEN NoView.dict
                          ELSE view_dict(structure, v.fields)]
     /\ UNCHANGED <<mem, parameters, gradient, inputs, outputs, in_deltas,
                    out_deltas, manager, call, hist>>

NextView ==
  \E structure \in Structures, buffer \in Segments :
    ConstructView(structure, buffer)

SpecView == Init /\ [][NextView]_vars

-----------------------------------------------------------------------------
(* Properties *)

Required(buf, shape) == get_size(buf, Take2(shape))
Capacity(m, id) == MemSize(m, id)

(* C1: set_memory_handler(handler), called while parameter memory is      *)
(* bound, completes normally, and afterwards param_memory is a fresh block *)
(* allocated through the new handler, of size parameters.size, holding the *)
(* parameter values stored before the call, and the parameter buffer is    *)
(* bound to it.                                                            *)
C1_HandlerSwapKeepsParameters ==
  (call.op = "set_memory_handler" /\ call.params # NoParams) =>
    /\ ~call.raised
    /\ manager.param_memory # None
    /\ \E a \in call.allocated :
         a.id = manager.param_memory /\ a.by = call.handler
    /\ Capacity(mem, manager.param_memory) = parameters.size
    /\ mem[manager.param_memory].data = call.params
    /\ parameters.memory = manager.param_memory

(* the call of C1 was made with parameters that had been written to *)
C1_SwapWithWrittenParameters ==
  /\ call.op = "set_memory_handler"
  /\ call.params # NoParams
  /\ \E i \in DOMAIN call.params : call.params[i] # 0

(* C2: a failed InOutBuffer.rearrange leaves the buffer's shape, size,     *)
(* bound memory and views as they were before the call.                    *)
C2_FailedRearrangeChangesNothing ==
  [][(call'.op = "InOutBuffer.rearrange" /\ call'.raised)
       => inputs' = inputs]_vars

(* a rearrange of a bound buffer failed *)
C2_RearrangeFailed ==
  /\ call.op = "InOutBuffer.rearrange"
  /\ call.raised
  /\ inputs.memory # None

(* C3: across rearrange_fwd and rearrange_bwd calls the capacity of the    *)
(* forward block and of the backward block never decreases from one step   *)
(* to the next.                                                            *)
C3_CapacityNeverShrinks ==
  [][call'.op \in {"rearrange_fwd", "rearrange_bwd"} =>
       /\ Capacity(mem', manager'.fwd_memory)
            >= Capacity(mem, manager.fwd_memory)
       /\ Capacity(mem', manager'.bwd_memory)
            >= Capacity(mem, manager.bwd_memory)]_vars

(* both pairs were rearranged to a shape that needs less than they hold *)
C3_SmallerShapeInLargerBlocks ==
  /\ call.op = "rearrange_bwd"
  /\ ~call.raised
  /\ call.relaid = {"in_deltas", "out_deltas"}
  /\ manager.bwd_shape = manager.fwd_shape
  /\ Required(inputs, manager.fwd_shape)
       < Capacity(mem, manager.fwd_memory)
  /\ Required(in_deltas, manager.bwd_shape)
       < Capacity(mem, manager.bwd_memory)

(* C4: a rearrange_fwd that asks for size s allocates a forward block if   *)
(* and only if s exceeds the capacity held before it, the new block has    *)
(* exactly size s, without an allocation the forward block keeps its       *)
(* identity, and the capacity is the largest size asked for since the      *)
(* manager was built or reset.                                             *)
C4_GrowsOnlyWhenInsufficient ==
  /\ [][call'.op = "rearrange_fwd" =>
          LET s == Required(inputs, call'.shape)
              grew == s > Capacity(mem, manager.fwd_memory)
          IN /\ (call'.allocated # {}) <=> grew
             /\ grew =>
                  /\ manager'.fwd_memory # manager.fwd_memory
                  /\ manager'.fwd_memory \in {a.id : a \in call'.allocated}
                  /\ Capacity(mem', manager'.fwd_memory) = s
             /\ ~grew => manager'.fwd_memory = manager.fwd_memory]_vars
  /\ [](Capacity(mem, manager.fwd_memory) = hist.fwd_max)

(* a rearrange_fwd laid the buffers out anew in the block it already had,  *)
(* which is larger than the shape needs                                    *)
C4_ReusedLargerBlock ==
  /\ call.op = "rearrange_fwd"
  /\ ~call.raised
  /\ call.allocated = {}
  /\ call.relaid = {"inputs", "outputs"}
  /\ Required(inputs, call.shape) > 0
  /\ Required(inputs, call.shape) < hist.fwd_max

C6_SameShapeIsNoOp ==
  [][(call'.op = "rearrange_fwd" /\ Take2(call'.shape) = manager.fwd_shape)
       => /\ ~call'.raised
          /\ call'.allocated = {}
          /\ call'.relaid = {}
          /\ manager' = manager
          /\ inputs' = inputs
          /\ outputs' = outputs
          /\ mem' = mem]_vars

(* a rearrange_fwd returned without laying anything out for a shape that   *)
(* needs memory: only the early return does that, with the three-element   *)
(* shape given after its first two elements had been processed             *)
C6_RepeatedShape ==
  /\ call.op = "rearrange_fwd"
  /\ Len(call.shape) = 3
  /\ Take2(call.shape) = manager.fwd_shape
  /\ ~call.raised
  /\ call.relaid = {}
  /\ call.allocated = {}
  /\ Required(inputs, call.shape) > 0

(* C7: whenever in_deltas is bound to a block, out_deltas is bound to the  *)
(* identical block, and that block is not the block of inputs or outputs.  *)
C7_BackwardPairSharesOwnBlock ==
  in_deltas.memory # None =>
    /\ out_deltas.memory = in_deltas.memory
    /\ in_deltas.memory \notin {inputs.memory, outputs.memory}

(* both pairs are bound *)
C7_BothPairsBound ==
  /\ call.op = "rearrange_bwd"
  /\ in_deltas.memory # None
  /\ out_deltas.memory # None
  /\ inputs.memory # None
  /\ outputs.memory # None

(* C8: the gradient buffer's block is never the parameter buffer's block,  *)
(* while both buffers have the same total size and the same per-layer      *)
(* layout.                                                                 *)
C8_GradientMirrorsParameters ==
  /\ gradient.memory # None => gradient.memory # parameters.memory
  /\ gradient.size = parameters.size
  /\ gradient.layout = parameters.layout
  /\ (gradient.memory # None /\ parameters.memory # None) =>
       [l \in DOMAIN gradient.views |->
          [k \in DOMAIN gradient.views[l] |->
             [gradient.views[l][k] EXCEPT !.memory = None]]]
       = [l \in DOMAIN parameters.views |->
            [k \in DOMAIN parameters.views[l] |->
               [parameters.views[l][k] EXCEPT !.memory = None]]]

(* parameters and gradient are both bound *)
C8_BothBound ==
  /\ gradient.memory # None
  /\ parameters.memory # None
  /\ DOMAIN gradient.views # {}

(* C9: after an InOutBuffer.rearrange call, a bound block has capacity at  *)
(* least the buffer's required size.                                       *)
C9_BoundMemorySuffices ==
  (call.op = "InOutBuffer.rearrange" /\ inputs.memory # None) =>
    Capacity(mem, inputs.memory) >= inputs.size

(* a rearrange given the very block that is bound returned normally and   *)
(* left the buffer needing more than the block holds                       *)
C9_SameBlockTooSmall ==
  /\ call.op = "InOutBuffer.rearrange"
  /\ ~call.raised
  /\ call.memory # None
  /\ call.memory = inputs.memory
  /\ Capacity(mem, inputs.memory) < inputs.size

(* C10: ParameterBuffer.rearrange with a block that is not the bound one   *)
(* and whose size differs from the buffer's size fails and leaves the      *)
(* bound memory and the views unchanged; a bound block has exactly the     *)
(* buffer's size.                                                          *)
C10_WrongSizeRefused ==
  /\ [][(/\ call'.op = "ParameterBuffer.rearrange"
         /\ call'.memory # None
         /\ call'.memory # parameters.memory
         /\ Capacity(mem, call'.memory) # parameters.size)
          => (call'.raised /\ parameters' = parameters)]_vars
  /\ [](parameters.memory # None =>
          Capacity(mem, parameters.memory) = parameters.size)

(* a bound parameter buffer refused a larger block *)
C10_LargerBlockRefused ==
  /\ call.op = "ParameterBuffer.rearrange"
  /\ call.raised
  /\ call.memory # None
  /\ parameters.memory # None
  /\ Capacity(mem, call.memory) > parameters.size

(* C11: ParameterBuffer.rearrange(M) with the block M that is already      *)
(* bound returns normally without a relayout: the views are the ones of    *)
(* before the call (none is replaced), and the bound memory and the block  *)
(* are unchanged.                                                          *)
C11_SameBlockIsNoOp ==
  [][(/\ call'.op = "ParameterBuffer.rearrange"
      /\ call'.memory # None
      /\ call'.memory = parameters.memory)
       => /\ ~call'.raised
          /\ call'.relaid = {}
          /\ parameters' = parameters
          /\ mem' = mem]_vars

(* a bound parameter buffer with views was rearranged with its own block *)
C11_RearrangedWithBoundBlock ==
  /\ call.op = "ParameterBuffer.rearrange"
  /\ ~call.raised
  /\ call.memory # None
  /\ call.memory = parameters.memory
  /\ call.relaid = {}
  /\ DOMAIN parameters.views # {}

(* C12: since the manager was built or last reset, rearrange_parameters    *)
(* has allocated at most one parameter block, and exactly one once         *)
(* param_memory is set; the call that finds param_memory unset allocates   *)
(* one block of size parameters.size and binds it; every later call        *)
(* allocates nothing, lays nothing out and leaves param_memory, the        *)
(* parameter buffer with its views and the blocks unchanged.               *)
C12_ParametersAllocatedOnce ==
  /\ [][call'.op = "rearrange_parameters" =>
          IF manager.param_memory = None
          THEN /\ ~call'.raised
               /\ Cardinality(call'.allocated) = 1
               /\ manager'.param_memory \in {a.id : a \in call'.allocated}
               /\ Capacity(mem', manager'.param_memory) = parameters.size
               /\ parameters'.memory = manager'.param_memory
          ELSE /\ ~call'.raised
               /\ call'.allocated = {}
               /\ call'.relaid = {}
               /\ manager' = manager
               /\ parameters' = parameters
               /\ mem' = mem]_vars
  /\ [](hist.param_allocs = IF manager.param_memory = None THEN 0 ELSE 1)

(* rearrange_parameters was called again with the parameter memory set *)
C12_CalledAgain ==
  /\ call.op = "rearrange_parameters"
  /\ ~call.raised
  /\ call.allocated = {}
  /\ hist.param_allocs = 1
  /\ manager.param_memory # None
  /\ parameters.memory = manager.param_memory

(* the sum of product(shape) over the structure *)
StructureSize(structure) ==
  Sum([k \in 1..Len(structure) |-> Prod(structure[k][2])])

(* C13: constructing a ParameterView fails whenever the sum of             *)
(* product(shape) over the structure differs from the length of the        *)
(* segment, be the segment shorter or longer.                              *)
C13_MismatchRefused ==
  (pview.op = "ParameterView"
     /\ StructureSize(pview.structure) # pview.buffer.len) => pview.raised

(* a view was constructed over a segment longer than its structure *)
C13_LongerSegmentAccepted ==
  /\ pview.op = "ParameterView"
  /\ pview.structure # << >>
  /\ StructureSize(pview.structure) < pview.buffer.len
  /\ ~pview.raised

(* the fields of the view cut the segment into consecutive ranges of the   *)
(* sizes and shapes the structure declares, in declared order              *)
FieldsPartitionSegment ==
  LET S == pview.structure
      B == pview.buffer
      n == Len(S)
  IN /\ ~pview.raised
     /\ Len(pview.fields) = n
     /\ \A i \in 0..(n - 1) :
          LET f == getitem_int(pview, i)
          IN /\ f.memory = B.memory
             /\ f.shape = S[i + 1][2]
             /\ f.stop - f.start = Prod(S[i + 1][2])
             /\ f.start = IF i = 0 THEN B.off
                          ELSE getitem_int(pview, i - 1).stop
     /\ n > 0 => getitem_int(pview, n - 1).stop = B.off + B.len

(* the last field that has the name of field i (fields counted from 0) *)
LastNamed(S, i) ==
  CHOOSE j \in i..(Len(S) - 1) :
    /\ S[j + 1][1] = S[i + 1][1]
    /\ \A k \in (j + 1)..(Len(S) - 1) : S[k + 1][1] # S[i + 1][1]

(* C14, as claimed: for a structure S and a segment B with len(B) equal   *)
(* to the sum of product(shape) over S, field i of the view aliases        *)
(* exactly the range from the sum of the sizes of the fields before i to   *)
(* that plus the size of field i (so the fields are disjoint, in declared  *)
(* order and cover B), and access by position i and access by the name of  *)
(* field i return the same sub-array.                                      *)
C14_AccessByNameIsByPosition ==
  (pview.op = "ParameterView"
     /\ StructureSize(pview.structure) = pview.buffer.len) =>
    /\ FieldsPartitionSegment
    /\ \A i \in 0..(Len(pview.structure) - 1) :
         getitem_name(pview, pview.structure[i + 1][1])
           = getitem_int(pview, i)

(* C14, amended: the fields partition B as claimed; access by the name of  *)
(* field i returns the last field of that name, which is field i whenever  *)
(* no later field has the same name.                                       *)
C14_FieldsPartitionSegment ==
  (pview.op = "ParameterView"
     /\ StructureSize(pview.structure) = pview.buffer.len) =>
    /\ FieldsPartitionSegment
    /\ \A i \in 0..(Len(pview.structure) - 1) :
         getitem_name(pview, pview.structure[i + 1][1])
           = getitem_int(pview, LastNamed(pview.structure, i))

(* a view of two non-empty fields of different names over a segment that   *)
(* they fill and that does not start at the start of its array             *)
C14_TwoFieldsFillSegment ==
  /\ pview.op = "ParameterView"
  /\ ~pview.raised
  /\ Len(pview.structure) = 2
  /\ pview.structure[1][1] # pview.structure[2][1]
  /\ Prod(pview.structure[1][2]) > 0
  /\ Prod(pview.structure[2][2]) > 0
  /\ StructureSize(pview.structure) = pview.buffer.len
  /\ pview.buffer.off > 0

InOutBuffers == {"inputs", "outputs", "in_deltas", "out_deltas"}

(* the range hub k (from 1) of buffer buf should have for the shape of buf *)
HubRange(buf, k) ==
  LET TS == buf.shape[1] * buf.shape[2]
  IN [start |-> TS * Sum(SubSeq(buf.hub_sizes, 1, k - 1)),
      stop |-> TS * Sum(SubSeq(buf.hub_sizes, 1, k))]

(* C15: after a call that laid an InOutBuffer out and returned normally,   *)
(* the view of every layer of hub k is the range                           *)
(* [T*S*sum(hub_sizes[0..k-1]), T*S*sum(hub_sizes[0..k])) of the bound     *)
(* block, of shape (T, S, hub_sizes[k]); hubs are contiguous from 0, in    *)
(* declared order; and two buffers of the same hub_sizes laid out over the *)
(* same block with the same shape have the same range for every hub.       *)
C15_HubsAreConsecutiveRanges ==
  ~call.raised =>
    /\ \A b \in call.relaid \cap InOutBuffers :
         \A k \in 1..Len(World[b].hub_sizes) :
           \A l \in DOMAIN World[b].layouts[k] :
             /\ l \in DOMAIN World[b].views
             /\ LET v == World[b].views[l]
                IN /\ v.memory = World[b].memory
                   /\ v.start = HubRange(World[b], k).start
                   /\ v.stop = HubRange(World[b], k).stop
                   /\ v.stop <= Capacity(mem, World[b].memory)
                   /\ v.shape = <<World[b].shape[1], World[b].shape[2],
                                  World[b].hub_sizes[k]>>
                   /\ v.features = World[b].layouts[k][l]
    /\ \A b1, b2 \in call.relaid \cap InOutBuffers :
         (/\ World[b1].hub_sizes = World[b2].hub_sizes
          /\ World[b1].memory = World[b2].memory
          /\ World[b1].shape = World[b2].shape) =>
           \A k \in 1..Len(World[b1].hub_sizes) :
             \A l1 \in DOMAIN World[b1].layouts[k],
                l2 \in DOMAIN World[b2].layouts[k] :
               /\ World[b1].views[l1].start = World[b2].views[l2].start
               /\ World[b1].views[l1].stop = World[b2].views[l2].stop

(* inputs and outputs were laid out with several time steps over one block *)
(* that holds more than the shape needs                                    *)
C15_TwoBuffersOverLargerBlock ==
  /\ call.op = "rearrange_fwd"
  /\ ~call.raised
  /\ call.relaid = {"inputs", "outputs"}
  /\ inputs.memory = outputs.memory
  /\ inputs.shape[1] * inputs.shape[2] > 0
  /\ Required(inputs, inputs.shape) < Capacity(mem, inputs.memory)

(* C16: a rearrange_fwd that fails leaves fwd_shape and fwd_memory as they *)
(* were before the call.                                                   *)
C16_FailedFwdKeepsShapeAndMemory ==
  [][(call'.op = "rearrange_fwd" /\ call'.raised)
       => /\ manager'.fwd_shape = manager.fwd_shape
          /\ manager'.fwd_memory = manager.fwd_memory]_vars

(* the same rearrange_fwd repeated after its failure returned normally     *)
(* without doing anything: inputs and outputs are still unbound            *)
C16_RepeatAfterFailureIsSilent ==
  /\ call.op = "rearrange_fwd"
  /\ ~call.raised
  /\ call.relaid = {}
  /\ call.allocated = {}
  /\ manager.fwd_shape = Take2(call.shape)
  /\ inputs.memory = None
  /\ outputs.memory = None

(* C17: after a rearrange_bwd that returns normally, bwd_shape equals      *)
(* fwd_shape and in_deltas and out_deltas have the shapes of inputs and    *)
(* outputs.                                                                *)
C17_BackwardMirrorsForwardShape ==
  (call.op = "rearrange_bwd" /\ ~call.raised) =>
    /\ manager.bwd_shape = manager.fwd_shape
    /\ in_deltas.shape = inputs.shape
    /\ out_deltas.shape = outputs.shape

(* a rearrange_bwd after a reset returned normally as a no-op although the *)
(* inputs are bound and the deltas have another shape                      *)
C17_NoOpOverStaleShapes ==
  /\ call.op = "rearrange_bwd"
  /\ ~call.raised
  /\ call.relaid = {}
  /\ manager.fwd_shape = NoneShape
  /\ inputs.memory # None
  /\ inputs.shape = outputs.shape
  /\ in_deltas.shape # inputs.shape

(* C18: after a rearrange_fwd that returns normally, inputs and outputs    *)
(* are bound to the block that is the manager's fwd_memory, and the shapes *)
(* of inputs and outputs equal fwd_shape.                                  *)
C18_ForwardPairFollowsManager ==
  (call.op = "rearrange_fwd" /\ ~call.raised) =>
    /\ inputs.memory = manager.fwd_memory
    /\ outputs.memory = manager.fwd_memory
    /\ inputs.shape = manager.fwd_shape
    /\ outputs.shape = manager.fwd_shape

(* a rearrange_fwd after a reset returned normally with inputs and outputs *)
(* laid out over a block that is not the manager's fwd_memory              *)
C18_LaidOutOverForeignBlock ==
  /\ call.op = "rearrange_fwd"
  /\ ~call.raised
  /\ call.relaid = {"inputs", "outputs"}
  /\ inputs.memory # None
  /\ inputs.memory # manager.fwd_memory
  /\ outputs.memory # manager.fwd_memory

(* C19: after an InOutBuffer.rearrange that returns normally, every layer  *)
(* has a view, and every view was laid out over the block that is bound    *)
(* and for the shape the buffer has.                                       *)
C19_ViewsAreFresh ==
  (call.op = "InOutBuffer.rearrange" /\ ~call.raised) =>
    /\ \A k \in 1..Len(inputs.layouts) :
         DOMAIN inputs.layouts[k] \subseteq DOMAIN inputs.views
    /\ \A l \in DOMAIN inputs.views :
         /\ inputs.views[l].memory = inputs.memory
         /\ Take2(inputs.views[l].shape) = inputs.shape

(* a rearrange without memory that follows a failed one returned normally  *)
(* without laying out: the bound block is large enough, and the views are  *)
(* those of another shape                                                  *)
C19_StaleViewsAfterFailure ==
  /\ call.op = "InOutBuffer.rearrange"
  /\ ~call.raised
  /\ call.relaid = {}
  /\ call.memory = None
  /\ Capacity(mem, inputs.memory) >= inputs.size
  /\ \E l \in DOMAIN inputs.views :
       Take2(inputs.views[l].shape) # inputs.shape

(* C20: a rearrange_bwd with no rearrange_fwd since the manager was built  *)
(* or last reset returns normally and changes nothing: no allocation, no   *)
(* layout, grad_memory stays unset.  The first rearrange_bwd that follows  *)
(* a rearrange_fwd allocates the gradient memory, one block of the size of *)
(* the parameters, and no later rearrange_bwd allocates another: the       *)
(* number of gradient blocks allocated since construction or reset is 1    *)
(* when grad_memory is set and 0 when it is not.                           *)
C20_GradientAllocatedByFirstBwdAfterFwd ==
  /\ [][call'.op = "rearrange_bwd" =>
          /\ ~hist.fwd_called =>
               /\ ~call'.raised
               /\ call'.allocated = {}
               /\ call'.relaid = {}
               /\ manager' = manager
               /\ manager'.grad_memory = None
               /\ manager'.bwd_memory = EMPTY
               /\ mem' = mem
               /\ gradient' = gradient
               /\ in_deltas' = in_deltas
               /\ out_deltas' = out_deltas
          /\ (hist.fwd_called /\ manager.grad_memory = None) =>
               /\ manager'.grad_memory \in {a.id : a \in call'.allocated}
               /\ Capacity(mem', manager'.grad_memory) = parameters.size
               /\ gradient'.memory = manager'.grad_memory
               /\ hist'.grad_allocs = 1
          /\ manager.grad_memory # None =>
               /\ manager'.grad_memory = manager.grad_memory
               /\ gradient' = gradient
               /\ hist'.grad_allocs = hist.grad_allocs]_vars
  /\ [](hist.grad_allocs = IF manager.grad_memory = None THEN 0 ELSE 1)
  /\ [](~hist.fwd_called => manager.grad_memory = None)

(* a rearrange_bwd was called after a reset and before any rearrange_fwd,  *)
(* on a manager whose gradient had been allocated before the reset         *)
C20_BwdBeforeFwdAfterReset ==
  /\ call.op = "rearrange_bwd"
  /\ ~hist.fwd_called
  /\ ~call.raised
  /\ call.allocated = {}
  /\ manager.grad_memory = None
  /\ gradient.memory # None

====
